---------------------------- MODULE Spec2Model ----------------------------
(***************************************************************************)
(* The AForm scripting API of src/scripting_api/aform.js as a state        *)
(* machine.  The host builds one field event, dispatches it to exactly one *)
(* AForm operation and reads the event back; a state of the model is the   *)
(* event together with what the operation did to its collaborators (the    *)
(* alerts raised, the fields looked up, the error thrown).                 *)
(*                                                                         *)
(* JavaScript strings are sequences of one-character strings.  JavaScript  *)
(* values are records [k, s, n]: k is the kind ("string", "number", "NaN", *)
(* "null", "undefined", "boolean", "array"), s the characters of a string  *)
(* or the items of an array, n the number in millionths (1.5 is 1500000),  *)
(* or 0/1 for a boolean.                                                   *)
(***************************************************************************)
EXTENDS Integers, Sequences, FiniteSets

VARIABLES
  event,      \* globalThis.event: [value, willCommit, rc, change, target]
  entry,      \* the event as the host dispatched it
  alerts,     \* the messages passed to this._app.alert, in order
  thrown,     \* "none", or the class of the error that aborted the call
  exMask,     \* the masks AFSpecial_KeystrokeEx was entered with, in order
  fields,     \* the document: field name -> values of the field's widgets
  lookups,    \* the names passed to this._document.getField, in order
  op,         \* the operation dispatched and its arguments
  pc          \* "ready" (dispatched, not yet run) or "done"

vars == <<event, entry, alerts, thrown, exMask, fields, lookups, op, pc>>

----------------------------------------------------------------------------
(* JavaScript values *)

Str(s) == [k |-> "string", s |-> s, n |-> 0]
Num(n) == [k |-> "number", s |-> <<>>, n |-> n]
NaN == [k |-> "NaN", s |-> <<>>, n |-> 0]
Null == [k |-> "null", s |-> <<>>, n |-> 0]
Undefined == [k |-> "undefined", s |-> <<>>, n |-> 0]
JSTrue == [k |-> "boolean", s |-> <<>>, n |-> 1]
JSFalse == [k |-> "boolean", s |-> <<>>, n |-> 0]
Array(items) == [k |-> "array", s |-> items, n |-> 0]

\* typeof v
TypeOf(v) ==
  CASE v.k = "string" -> "string"
    [] v.k \in {"number", "NaN"} -> "number"
    [] v.k = "boolean" -> "boolean"
    [] v.k \in {"null", "array"} -> "object"
    [] OTHER -> "undefined"

\* !!v : the empty string, 0, NaN, null, undefined and false are falsy
ToBoolean(v) ==
  CASE v.k = "string" -> v.s # <<>>
    [] v.k = "number" -> v.n # 0
    [] v.k = "boolean" -> v.n = 1
    [] v.k = "array" -> TRUE
    [] OTHER -> FALSE

\* The number of millionths in one: numbers are kept to six decimals, the
\* precision AFSimple_Calculate rounds to (1e6).
Million == 1000000

Digits == <<"0", "1", "2", "3", "4", "5", "6", "7", "8", "9">>
IsDigit(c) == \E i \in 1..10 : Digits[i] = c
DigitValue(c) == (CHOOSE i \in 1..10 : Digits[i] = c) - 1
IsLetter(c) ==
  c \in {"a", "b", "c", "d", "e", "f", "g", "h", "i", "j", "k", "l", "m",
         "n", "o", "p", "q", "r", "s", "t", "u", "v", "w", "x", "y", "z",
         "A", "B", "C", "D", "E", "F", "G", "H", "I", "J", "K", "L", "M",
         "N", "O", "P", "Q", "R", "S", "T", "U", "V", "W", "X", "Y", "Z"}
IsSpace(c) == c = " "

Substring(s, from) == SubSeq(s, from + 1, Len(s))   \* s.substring(from)
Prefix(s, n) == SubSeq(s, 1, n)                     \* s.substring(0, n)

RECURSIVE TrimStart(_)
TrimStart(s) == IF s # <<>> /\ IsSpace(s[1]) THEN TrimStart(Tail(s)) ELSE s
RECURSIVE TrimEnd(_)
TrimEnd(s) ==
  IF s # <<>> /\ IsSpace(s[Len(s)]) THEN TrimEnd(Prefix(s, Len(s) - 1)) ELSE s
Trim(s) == TrimEnd(TrimStart(s))                    \* s.trim()

\* s.replace(a, b) with a one-character string a: the first occurrence only
ReplaceFirst(s, a, b) ==
  IF \E i \in 1..Len(s) : s[i] = a
  THEN LET i == CHOOSE j \in 1..Len(s) : s[j] = a /\ \A h \in 1..(j - 1) : s[h] # a
       IN [s EXCEPT ![i] = b]
  ELSE s

\* the longest run of digits s starts with
RECURSIVE DigitPrefix(_)
DigitPrefix(s) ==
  IF s # <<>> /\ IsDigit(s[1]) THEN <<s[1]>> \o DigitPrefix(Tail(s)) ELSE <<>>

AllDigits(s) == \A i \in 1..Len(s) : IsDigit(s[i])

RECURSIVE DigitsValue(_)
DigitsValue(s) ==
  IF s = <<>> THEN 0
  ELSE 10 * DigitsValue(Prefix(s, Len(s) - 1)) + DigitValue(s[Len(s)])

RECURSIVE Pow10(_)
Pow10(n) == IF n = 0 THEN 1 ELSE 10 * Pow10(n - 1)

\* the fraction digits f as millionths (digits past the sixth are dropped)
FracMillionths(f) ==
  LET g == IF Len(f) > 6 THEN Prefix(f, 6) ELSE f
  IN DigitsValue(g) * Pow10(6 - Len(g))

\* The numeric literal s starts with, after leading white space:
\* [+-]? ( digits [. digits*]? | . digits ).  read is the number of characters
\* of the trimmed string the literal takes; ok is FALSE when there is none.
\* (Exponents, hexadecimal literals and Infinity need characters the
\* model's alphabets do not hold.)
ScanNumber(s) ==
  LET Literal(t, signed, ip, dot, fp) ==
        [ok |-> ip # <<>> \/ fp # <<>>,
         n |-> (IF signed /\ t[1] = "-" THEN -1 ELSE 1)
                 * (DigitsValue(ip) * Million + FracMillionths(fp)),
         read |-> (IF signed THEN 1 ELSE 0) + Len(ip)
                    + (IF dot THEN 1 + Len(fp) ELSE 0),
         len |-> Len(t)]
      Fraction(t, signed, ip, rest, dot) ==
        Literal(t, signed, ip, dot,
                IF dot THEN DigitPrefix(Tail(rest)) ELSE <<>>)
      Whole(t, signed, body, ip) ==
        Fraction(t, signed, ip, Substring(body, Len(ip)),
                 Len(ip) < Len(body) /\ body[Len(ip) + 1] = ".")
      Signed(t, signed) ==
        Whole(t, signed, IF signed THEN Tail(t) ELSE t,
              DigitPrefix(IF signed THEN Tail(t) ELSE t))
      Trimmed(t) == Signed(t, t # <<>> /\ t[1] \in {"+", "-"})
  IN Trimmed(TrimStart(s))

\* parseFloat(s)
ParseFloat(s) ==
  LET Parsed(r) == IF r.ok THEN Num(r.n) ELSE NaN IN Parsed(ScanNumber(s))

\* ToNumber(v), the conversion the relational operators apply to an operand:
\* a string must be a numeric literal as a whole, the empty string is 0
ToNumber(v) ==
  CASE v.k \in {"number", "NaN"} -> v
    [] v.k = "boolean" -> Num(v.n * Million)
    [] v.k = "null" -> Num(0)
    [] v.k = "string" ->
         LET Literal(t, r) ==
               IF t = <<>> THEN Num(0)
               ELSE IF r.ok /\ r.read = Len(t) THEN Num(r.n) ELSE NaN
         IN Literal(Trim(v.s), ScanNumber(Trim(v.s)))
    [] OTHER -> NaN

\* a < b on two values that ToNumber has made numbers: false when either is NaN
NumLess(a, b) == a.k = "number" /\ b.k = "number" /\ a.n < b.n

RECURSIVE NatToString(_)
NatToString(n) ==
  IF n < 10 THEN <<Digits[n + 1]>>
  ELSE NatToString(n \div 10) \o <<Digits[(n % 10) + 1]>>

RECURSIVE StripZeros(_)
StripZeros(s) ==
  IF s # <<>> /\ s[Len(s)] = "0" THEN StripZeros(Prefix(s, Len(s) - 1)) ELSE s

\* the six fraction digits of a number of millionths, trailing zeros removed
FracToString(m) ==
  LET d == NatToString(m)
      pad == [i \in 1..(6 - Len(d)) |-> "0"]
  IN StripZeros(pad \o d)

\* v.toString()
ToString(v) ==
  CASE v.k = "string" -> v.s
    [] v.k = "number" ->
         LET a == IF v.n < 0 THEN -v.n ELSE v.n
             f == a % Million
         IN (IF v.n < 0 THEN <<"-">> ELSE <<>>) \o NatToString(a \div Million)
              \o (IF f = 0 THEN <<>> ELSE <<".">> \o FracToString(f))
    [] v.k = "NaN" -> <<"N", "a", "N">>
    [] v.k = "boolean" -> IF v.n = 1 THEN <<"t", "r", "u", "e">>
                          ELSE <<"f", "a", "l", "s", "e">>
    [] v.k = "null" -> <<"n", "u", "l", "l">>
    [] OTHER -> <<"u", "n", "d", "e", "f", "i", "n", "e", "d">>

\* a + b where b is a string: string concatenation
Concat(v, s) == Str(ToString(v) \o s)

----------------------------------------------------------------------------
(* Collaborators outside aform.js *)

\* this._app._eventDispatcher.mergeChange(event): the text the field holds
\* once the keystroke is applied.  The model types at the end of the text.
MergeChange(ev) == ToString(ev.value) \o ev.change

\* this._util.printx(cFormat, cSource) for masks of "9" and literals: a "9"
\* takes the next digit of the source, any other character is copied, and
\* the rendering stops when the source is used up.
RECURSIVE Printx(_, _)
Printx(cFormat, cSource) ==
  IF cFormat = <<>> \/ cSource = <<>> THEN <<>>
  ELSE IF cFormat[1] = "9"
       THEN LET from == CHOOSE i \in 1..(Len(cSource) + 1) :
                     /\ \A j \in 1..(i - 1) : ~IsDigit(cSource[j])
                     /\ (i <= Len(cSource) => IsDigit(cSource[i]))
            IN IF from > Len(cSource) THEN <<>>
               ELSE <<cSource[from]>> \o Printx(Tail(cFormat), Substring(cSource, from))
       ELSE <<cFormat[1]>> \o Printx(Tail(cFormat), cSource)

\* this._util.printf(format, value): left uninterpreted, the result is the
\* string that spells the call
Printf(format, value) ==
  Str(<<"p", "r", "i", "n", "t", "f", "(">> \o format \o <<",">>
        \o ToString(value) \o <<")">>)

\* a message passed to this._app.alert: a GlobalConstants text and what the
\* code puts into it
Message(ids, text, args) == [ids |-> ids, text |-> text, args |-> args]

----------------------------------------------------------------------------
(* aform.js.  Every operation maps g, the record of everything a call can  *)
(* touch (the event and the collaborators' state), to g after the call.    *)

Alert(g, msg) == [g EXCEPT !.alerts = Append(@, msg)]
Throw(g, class) == [g EXCEPT !.thrown = class]

\* AFMergeChange(event)
AFMergeChange(ev) == IF ev.willCommit THEN ToString(ev.value) ELSE MergeChange(ev)

\* AFMakeNumber(str)
AFMakeNumber(str) ==
  IF TypeOf(str) = "number" THEN str
  ELSE IF TypeOf(str) # "string" THEN Null
  ELSE LET NullIfNaN(number) == IF number.k = "NaN" THEN Null ELSE number
       IN NullIfNaN(ParseFloat(ReplaceFirst(Trim(str.s), ",", ".")))

\* Math.sign(value) of a number: 1, -1 or 0
Sign(value) == IF value.n > 0 THEN 1 ELSE IF value.n < 0 THEN -1 ELSE 0

\* Math.min(Math.max(0, Math.floor(sepStyle)), 4) of a whole number
ClampSepStyle(sepStyle) ==
  IF sepStyle < 0 THEN 0 ELSE IF sepStyle > 4 THEN 4 ELSE sepStyle

\* AFNumber_Format(nDec, sepStyle, negStyle, currStyle, strCurrency,
\* bCurrencyPrepend); nDec and sepStyle are whole numbers, strCurrency a
\* string, the colours are this._color.black and this._color.red
AFNumber_Format(g, nDec, sepStyle, negStyle, strCurrency, bCurrencyPrepend) ==
  LET Format(value, sign) ==
        LET hasParen == negStyle \in {2, 3} /\ sign = -1
            buf == (IF sign = -1 /\ bCurrencyPrepend /\ negStyle = 0
                    THEN <<"-">> ELSE <<>>)
                   \o (IF hasParen THEN <<"(">> ELSE <<>>)
                   \o (IF bCurrencyPrepend THEN strCurrency ELSE <<>>)
                   \o <<"%", ",">> \o NatToString(ClampSepStyle(sepStyle)) \o <<".">>
                   \o NatToString(nDec) \o <<"f">>
                   \o (IF ~bCurrencyPrepend THEN strCurrency ELSE <<>>)
                   \o (IF hasParen THEN <<")">> ELSE <<>>)
            coloured == IF negStyle \in {1, 3}
                        THEN [g EXCEPT !.event.target.textColor =
                                         IF sign = 1 THEN "black" ELSE "red"]
                        ELSE g
            shown == IF (negStyle # 0 \/ bCurrencyPrepend) /\ sign = -1
                     THEN Num(-value.n) ELSE value
        IN [coloured EXCEPT !.event.value = Printf(buf, shown)]
      Made(value) ==
        IF value = Null THEN [g EXCEPT !.event.value = Str(<<>>)]
        ELSE Format(value, Sign(value))
  IN Made(AFMakeNumber(g.event.value))

\* /^[+-]?(\d+(S\d*)?|S\d+)$/ and /^[+-]?\d*S?\d*$/ for the separator S
NumberPattern(value, sep, complete) ==
  LET body == IF value # <<>> /\ value[1] \in {"+", "-"} THEN Tail(value) ELSE value
      ip == DigitPrefix(body)
      rest == Substring(body, Len(ip))
      hasSep == rest # <<>> /\ rest[1] = sep
      fp == IF hasSep THEN Tail(rest) ELSE rest
  IN /\ AllDigits(fp)
     /\ complete => (ip # <<>> \/ (hasSep /\ fp # <<>>))

\* a variant of AFNumber_Keystroke that alerts whether or not the event commits
AFNumber_Keystroke_AlwaysAlert(g, sepStyle) ==
  LET sep == IF sepStyle > 1 THEN "," ELSE "."
      Coerce(value, g1) ==
        IF g.event.willCommit /\ sepStyle > 1
        THEN [g1 EXCEPT !.event.value = ParseFloat(ReplaceFirst(value, ",", "."))]
        ELSE g1
      Match(value) ==
        Coerce(value,
               IF NumberPattern(value, sep, g.event.willCommit) THEN g
               ELSE [Alert(g, Message("IDS_INVALID_VALUE", <<>>, <<"target">>))
                       EXCEPT !.event.rc = FALSE])
      Merged(merged) == IF merged = <<>> THEN g ELSE Match(Trim(merged))
  IN Merged(AFMergeChange(g.event))

\* AFNumber_Keystroke(nDec, sepStyle, ...): only sepStyle is used
AFNumber_Keystroke(g, sepStyle) ==
  LET sep == IF sepStyle > 1 THEN "," ELSE "."
      Coerce(value, g1) ==
        IF g.event.willCommit /\ sepStyle > 1
        THEN [g1 EXCEPT !.event.value = ParseFloat(ReplaceFirst(value, ",", "."))]
        ELSE g1
      Match(value) ==
        Coerce(value,
               IF NumberPattern(value, sep, g.event.willCommit) THEN g
               ELSE [(IF g.event.willCommit
                      THEN Alert(g, Message("IDS_INVALID_VALUE", <<>>, <<"target">>))
                      ELSE g) EXCEPT !.event.rc = FALSE])
      Merged(merged) == IF merged = <<>> THEN g ELSE Match(Trim(merged))
  IN Merged(AFMergeChange(g.event))

\* AFPercent_Keystroke(nDec, sepStyle)
AFPercent_Keystroke(g, sepStyle) == AFNumber_Keystroke(g, sepStyle)

\* AFDate_KeystrokeEx(cFormat).  date is what this._parseDate(cFormat, value)
\* returns ("null" or "date"): the parsers (this._util._scand, Date.parse)
\* are outside aform.js.
AFDate_KeystrokeEx(g, cFormat, date) ==
  LET value == AFMergeChange(g.event)
  IN IF ~g.event.willCommit THEN g
     ELSE IF value = <<>> THEN g
     ELSE IF date = "null"
          THEN [Alert(g, Message("IDS_INVALID_DATE", <<>>, <<"target", cFormat>>))
                  EXCEPT !.event.rc = FALSE]
          ELSE g

\* AFTime_KeystrokeEx(cFormat)
AFTime_KeystrokeEx(g, cFormat, date) == AFDate_KeystrokeEx(g, cFormat, date)

\* AFRange_Validate(bGreaterThan, nGreaterThan, bLessThan, nLessThan)
AFRange_Validate(g, bGreaterThan, nGreaterThan, bLessThan, nLessThan) ==
  LET bG == ToBoolean(bGreaterThan)
      bL == ToBoolean(bLessThan)
      Report(err) ==
        IF err # <<>> THEN [Alert(g, err[1]) EXCEPT !.event.rc = FALSE] ELSE g
      \* below: value < nGreaterThan, above: value > nLessThan
      Compare(nG, nL, below, above) ==
        Report(IF bG /\ bL
               THEN IF below \/ above
                    THEN <<Message("IDS_GT_AND_LT", <<>>, <<nG, nL>>)>> ELSE <<>>
               ELSE IF bG
                    THEN IF below
                         THEN <<Message("IDS_GREATER_THAN", <<>>, <<nG>>)>> ELSE <<>>
                    ELSE IF above
                         THEN <<Message("IDS_LESS_THAN", <<>>, <<nL>>)>> ELSE <<>>)
      Validate(value, nG, nL) ==
        IF ~ToBoolean(g.event.value) THEN g
        ELSE IF value = Null THEN g
        ELSE IF bG /\ nG = Null THEN g
        ELSE IF bL /\ nL = Null THEN g
        ELSE Compare(nG, nL, NumLess(ToNumber(value), ToNumber(nG)),
                     NumLess(ToNumber(nL), ToNumber(value)))
  IN Validate(AFMakeNumber(g.event.value),
              IF bG THEN AFMakeNumber(nGreaterThan) ELSE nGreaterThan,
              IF bL THEN AFMakeNumber(nLessThan) ELSE nLessThan)

----------------------------------------------------------------------------
(* AFSimple_Calculate.  The reducers work on exact fractions [num, den].   *)

RECURSIVE GCD(_, _)
GCD(a, b) == IF b = 0 THEN a ELSE GCD(b, a % b)
Abs(a) == IF a < 0 THEN -a ELSE a
Rat(num, den) ==
  LET d == GCD(Abs(num), den) IN [num |-> num \div d, den |-> den \div d]
RatOf(v) == Rat(v.n, Million)                    \* the number v as a fraction
RatAdd(a, b) == Rat(a.num * b.den + b.num * a.den, a.den * b.den)
RatMul(a, b) == Rat(a.num * b.num, a.den * b.den)
RatLess(a, b) == a.num * b.den < b.num * a.den

RatMin(a, b) == IF RatLess(b, a) THEN b ELSE a
RatMax(a, b) == IF RatLess(a, b) THEN b ELSE a

\* args.reduce((acc, value) => acc + value, acc)
RECURSIVE ReduceSum(_, _)
ReduceSum(args, acc) ==
  IF args = <<>> THEN acc ELSE ReduceSum(Tail(args), RatAdd(acc, args[1]))
\* args.reduce((acc, value) => acc * value, acc)
RECURSIVE ReducePrd(_, _)
ReducePrd(args, acc) ==
  IF args = <<>> THEN acc ELSE ReducePrd(Tail(args), RatMul(acc, args[1]))
\* Math.min(...args) and Math.max(...args) of a non-empty args
RECURSIVE MathMin(_)
MathMin(args) ==
  IF Len(args) = 1 THEN args[1] ELSE RatMin(args[1], MathMin(Tail(args)))
RECURSIVE MathMax(_)
MathMax(args) ==
  IF Len(args) = 1 THEN args[1] ELSE RatMax(args[1], MathMax(Tail(args)))

\* Math.round(1e6 * res) / 1e6 : the nearest millionth, halves rounded up
Round6(res) == Num((2 * Million * res.num + res.den) \div (2 * res.den))

\* the keys of the actions object
ActionKeys == {"AVG", "SUM", "PRD", "MIN", "MAX"}
\* methods every object inherits from Object.prototype (two of them)
InheritedKeys == {"toString", "hasOwnProperty"}
\* cFunction in actions: the in operator also finds inherited properties
InActions(cFunction) == cFunction \in ActionKeys \cup InheritedKeys

\* Math.round(1e6 * actions[cFunction](values)) / 1e6
ApplyAction(cFunction, values) ==
  CASE cFunction = "AVG" ->
         Round6(RatMul(ReduceSum(values, Rat(0, 1)), Rat(1, Len(values))))
    [] cFunction = "SUM" -> Round6(ReduceSum(values, Rat(0, 1)))
    [] cFunction = "PRD" -> Round6(ReducePrd(values, Rat(1, 1)))
    [] cFunction = "MIN" -> Round6(MathMin(values))
    [] cFunction = "MAX" -> Round6(MathMax(values))
    [] cFunction = "toString" -> NaN     \* 1e6 * "[object Object]"
    [] OTHER -> Num(0)                   \* hasOwnProperty: 1e6 * false

\* string.split(/, ?/g)
RECURSIVE Split(_, _)
Split(string, item) ==
  IF string = <<>> THEN <<item>>
  ELSE IF string[1] = ","
       THEN <<item>> \o Split(IF Len(string) > 1 /\ string[2] = " "
                               THEN Substring(string, 2) ELSE Tail(string), <<>>)
       ELSE Split(Tail(string), Append(item, string[1]))

\* AFMakeArrayFromList(string): a list of names as one string, or an array
AFMakeArrayFromList(string) ==
  IF TypeOf(string) = "string" THEN Split(string.s, <<>>) ELSE string.s

\* the values AFSimple_Calculate collects from the fields named
RECURSIVE ChildNumbers(_)
ChildNumbers(children) ==
  IF children = <<>> THEN <<>>
  ELSE LET OrZero(number) == IF number = Null THEN Num(0) ELSE number
       IN <<RatOf(OrZero(AFMakeNumber(children[1])))>>
            \o ChildNumbers(Tail(children))
RECURSIVE Collect(_, _)
Collect(doc, cFields) ==
  IF cFields = <<>> THEN <<>>
  ELSE (IF cFields[1] \in DOMAIN doc THEN ChildNumbers(doc[cFields[1]]) ELSE <<>>)
         \o Collect(doc, Tail(cFields))

\* AFSimple_Calculate(cFunction, cFields) on the document doc
AFSimple_Calculate(g, doc, cFunction, cFields) ==
  LET Reduce(g1, values) ==
        IF values = <<>> THEN [g1 EXCEPT !.event.value = Num(0)]
        ELSE [g1 EXCEPT !.event.value = ApplyAction(cFunction, values)]
      Named(names) ==
        Reduce([g EXCEPT !.lookups = @ \o names], Collect(doc, names))
  IN IF ~InActions(cFunction) THEN Throw(g, "TypeError")
     ELSE Named(AFMakeArrayFromList(cFields))

----------------------------------------------------------------------------
(* The mask engine *)

Zip5 == <<"9", "9", "9", "9", "9">>                                \* "99999"
Zip9 == <<"9", "9", "9", "9", "9", "-", "9", "9", "9", "9">>       \* "99999-9999"
Phone7 == <<"9", "9", "9", "-", "9", "9", "9", "9">>               \* "999-9999"
Phone10 == <<"(", "9", "9", "9", ")", " ", "9", "9", "9", "-",
             "9", "9", "9", "9">>                                  \* "(999) 999-9999"
Ssn == <<"9", "9", "9", "-", "9", "9", "-", "9", "9", "9", "9">>   \* "999-99-9999"
TenDigits == <<"9", "9", "9", "9", "9", "9", "9", "9", "9", "9">>  \* "9999999999"

CharAt(s, i) == IF i <= Len(s) THEN s[i] ELSE ""    \* s.charAt(i - 1)

\* checkers.get(mask)(char), or mask === char when the map has no checker
CheckChar(mask, char) ==
  CASE mask = "9" -> IsDigit(char)
    [] mask = "A" -> IsLetter(char)
    [] mask = "O" -> IsLetter(char) \/ IsDigit(char)
    [] mask = "X" -> TRUE
    [] OTHER -> mask = char

\* _checkValidity(_value, _cMask)
CheckValidity(value, cMask) ==
  \A i \in 1..Len(value) : CheckChar(CharAt(cMask, i), CharAt(value, i))

\* the failure exits of #AFSpecial_KeystrokeEx_helper
RejectMask(g, cMask, warn) ==
  [(IF warn THEN Alert(g, Message("IDS_INVALID_VALUE", cMask, <<>>)) ELSE g)
     EXCEPT !.event.rc = FALSE]

\* a variant of the helper that lets a committed text be shorter than the mask
KeystrokeEx_helper_PartialCommit(g, cMask, value, warn) ==
  LET Check(v) ==
        LET cut == IF Len(v) < Len(cMask) THEN Prefix(cMask, Len(v)) ELSE cMask
        IN IF v = <<>> THEN g
           ELSE IF Len(v) > Len(cMask) THEN RejectMask(g, cMask, warn)
           ELSE IF ~CheckValidity(v, cut) THEN RejectMask(g, cMask, warn)
           ELSE IF g.event.willCommit
                THEN [g EXCEPT !.event.value = Concat(@, Substring(cMask, Len(v)))]
                ELSE g
  IN IF cMask = <<>> THEN g
     ELSE Check(IF value # <<>> THEN value ELSE AFMergeChange(g.event))

\* #AFSpecial_KeystrokeEx_helper(cMask, value, warn); a null value is <<>>,
\* which value ||= treats as it treats the empty string
KeystrokeEx_helper(g, cMask, value, warn) ==
  LET Check(v) ==
        LET cut == IF Len(v) < Len(cMask) THEN Prefix(cMask, Len(v)) ELSE cMask
        IN IF v = <<>> THEN g
           ELSE IF Len(v) > Len(cMask) THEN RejectMask(g, cMask, warn)
           ELSE IF g.event.willCommit
                THEN IF Len(v) < Len(cMask) THEN RejectMask(g, cMask, warn)
                     ELSE IF ~CheckValidity(v, cMask) THEN RejectMask(g, cMask, warn)
                     ELSE [g EXCEPT !.event.value =
                                      Concat(@, Substring(cMask, Len(v)))]
                ELSE IF ~CheckValidity(v, cut) THEN RejectMask(g, cMask, warn)
                     ELSE g
  IN IF cMask = <<>> THEN g
     ELSE Check(IF value # <<>> THEN value ELSE AFMergeChange(g.event))

IsMaskClass(c) == c \in {"9", "A", "O", "X"}
\* cMask.replaceAll(/[^9AOX]/g, "")
Simplify(cMask) == SelectSeq(cMask, IsMaskClass)

\* a variant of AFSpecial_KeystrokeEx without the pass on the simplified mask
AFSpecial_KeystrokeEx_NoSimplify(g, cMask) ==
  KeystrokeEx_helper([g EXCEPT !.exMask = Append(@, cMask)], cMask, <<>>, TRUE)

\* AFSpecial_KeystrokeEx(cMask)
AFSpecial_KeystrokeEx(g, cMask) ==
  LET g0 == [g EXCEPT !.exMask = Append(@, cMask)]
      Simplified(g1) ==
        IF g1.event.rc THEN g1
        ELSE KeystrokeEx_helper([g1 EXCEPT !.event.rc = TRUE], cMask, <<>>, TRUE)
  IN Simplified(KeystrokeEx_helper(g0, Simplify(cMask), <<>>, FALSE))

IsKept(c) == ~(c \in {"-", "(", ")"} \/ IsSpace(c))
\* s.replaceAll(/([-()]|\s)+/g, "")
Clean(s) == SelectSeq(s, IsKept)

\* for (const format of formats) { helper(format, value, false); ... }: the
\* event after the loop and whether the loop returned from the function
RECURSIVE Probe(_, _, _, _)
Probe(g, formats, value, clean) ==
  IF formats = <<>> THEN [g |-> g, returned |-> FALSE]
  ELSE LET format == IF clean THEN Clean(formats[1]) ELSE formats[1]
           Tried(g1) ==
             IF g1.event.rc THEN [g |-> g1, returned |-> TRUE]
             ELSE Probe([g1 EXCEPT !.event.rc = TRUE], Tail(formats), value, clean)
       IN Tried(KeystrokeEx_helper(g, format, value, FALSE))

\* the formats AFSpecial_Keystroke tries for the preset psf (<<>>: no preset)
KeystrokeFormats(psf) ==
  CASE psf = Num(0) -> <<Zip5>>
    [] psf = Num(Million) -> <<Zip9>>
    [] psf = Num(2 * Million) -> <<Phone7, Phone10>>
    [] psf = Num(3 * Million) -> <<Ssn>>
    [] OTHER -> <<>>

\* a variant of DefinitiveMask that takes the long mask from seven digits on
DefinitiveMask_AtLeast7(formats, value) ==
  LET digits == IF Len(formats) > 1 THEN Len(SelectSeq(value, IsDigit)) ELSE 0
  IN IF digits >= 7 THEN formats[2] ELSE formats[1]

\* ((secondFormatStr && value.match(/\d/g)) || []).length > 7
\*   ? secondFormatStr : formatStr
DefinitiveMask(formats, value) ==
  LET digits == IF Len(formats) > 1 THEN Len(SelectSeq(value, IsDigit)) ELSE 0
  IN IF digits > 7 THEN formats[2] ELSE formats[1]

\* AFSpecial_Keystroke(psf)
AFSpecial_Keystroke(g, psf) ==
  LET Definitive(formats, cleaned, second) ==
        IF second.returned THEN second.g
        ELSE AFSpecial_KeystrokeEx(second.g, DefinitiveMask(formats, cleaned))
      Cleaned(formats, cleaned, first) ==
        IF first.returned THEN first.g
        ELSE Definitive(formats, cleaned, Probe(first.g, formats, cleaned, TRUE))
      Merged(formats, value) ==
        IF formats = <<>> THEN Throw(g, "Error")
        ELSE Cleaned(formats, Clean(value), Probe(g, formats, value, FALSE))
  IN Merged(KeystrokeFormats(AFMakeNumber(psf)), AFMergeChange(g.event))

\* a variant of AFSpecial_Format that looks at psf before the value
AFSpecial_Format_SwitchFirst(g, psf) ==
  LET Format(p, source) ==
        LET formatStr ==
              CASE p = Num(0) -> Zip5
                [] p = Num(Million) -> Zip9
                [] p = Num(2 * Million) ->
                     IF Len(Printx(TenDigits, source)) >= 10 THEN Phone10 ELSE Phone7
                [] p = Num(3 * Million) -> Ssn
                [] OTHER -> <<>>
        IN IF formatStr = <<>> THEN Throw(g, "Error")
           ELSE IF ~ToBoolean(g.event.value) THEN g
           ELSE [g EXCEPT !.event.value = Str(Printx(formatStr, source))]
  IN Format(AFMakeNumber(psf), ToString(g.event.value))

\* AFSpecial_Format(psf)
AFSpecial_Format(g, psf) ==
  LET Format(p, source) ==
        LET formatStr ==
              CASE p = Num(0) -> Zip5
                [] p = Num(Million) -> Zip9
                [] p = Num(2 * Million) ->
                     IF Len(Printx(TenDigits, source)) >= 10 THEN Phone10 ELSE Phone7
                [] p = Num(3 * Million) -> Ssn
                [] OTHER -> <<>>
        IN IF ~ToBoolean(g.event.value) THEN g
           ELSE IF formatStr = <<>> THEN Throw(g, "Error")
           ELSE [g EXCEPT !.event.value = Str(Printx(formatStr, source))]
  IN Format(AFMakeNumber(psf), ToString(g.event.value))

----------------------------------------------------------------------------
(* Bounds and the inputs drawn within them *)

MaxLen == 3          \* the longest field text of the general specifications
MaxMaskLen == 3      \* the longest mask drawn from MaskChars
MaxPhoneLen == 8     \* the longest field text of the phone specification
MaxWidgets == 2      \* the most widgets of one field

Strings(chars, max) == UNION {[1..n -> chars] : n \in 0..max}

MaskChars == {"9", "A", "-"}
TextChars == {"1", "a", "-"}
NumberChars == {"0", "1", "-", ",", "."}

\* the events the host dispatches: a keystroke carries the typed text, a
\* commit carries none
Target(color) == [textColor |-> color]
Events(values, changes, rcs) ==
  {[value |-> v, willCommit |-> TRUE, rc |-> r, change |-> <<>>,
    target |-> Target("black")] : v \in values, r \in rcs}
  \cup {[value |-> v, willCommit |-> FALSE, rc |-> r, change |-> c,
         target |-> Target("black")] : v \in values, r \in rcs, c \in changes}

NoDocument == <<>>

InitWith(events, docs) ==
  /\ event \in events
  /\ entry = event
  /\ alerts = <<>>
  /\ thrown = "none"
  /\ exMask = <<>>
  /\ fields \in docs
  /\ lookups = <<>>
  /\ op = [name |-> "none", args |-> <<>>]
  /\ pc = "ready"

----------------------------------------------------------------------------
(* The host runs the operation the field's action names on the event *)

Globals ==
  [event |-> event, alerts |-> alerts, thrown |-> thrown, exMask |-> exMask,
   lookups |-> lookups]

Run(name, args, g) ==
  /\ pc = "ready"
  /\ pc' = "done"
  /\ op' = [name |-> name, args |-> args]
  /\ event' = g.event
  /\ alerts' = g.alerts
  /\ thrown' = g.thrown
  /\ exMask' = g.exMask
  /\ lookups' = g.lookups
  /\ UNCHANGED <<entry, fields>>

Call_AFSpecial_KeystrokeEx(masks) ==
  \E cMask \in masks :
    Run("AFSpecial_KeystrokeEx", <<cMask>>, AFSpecial_KeystrokeEx(Globals, cMask))

Call_AFSpecial_Keystroke(psfs) ==
  \E psf \in psfs :
    Run("AFSpecial_Keystroke", <<psf>>, AFSpecial_Keystroke(Globals, psf))

Call_AFSpecial_Format(psfs) ==
  \E psf \in psfs :
    Run("AFSpecial_Format", <<psf>>, AFSpecial_Format(Globals, psf))

Call_AFNumber_Keystroke ==
  \E sepStyle \in 0..4 :
    Run("AFNumber_Keystroke", <<sepStyle>>, AFNumber_Keystroke(Globals, sepStyle))

Call_AFPercent_Keystroke ==
  \E sepStyle \in 0..4 :
    Run("AFPercent_Keystroke", <<sepStyle>>, AFPercent_Keystroke(Globals, sepStyle))

Call_AFDate_KeystrokeEx ==
  \E cFormat \in {"m/d/yy"}, date \in {"null", "date"} :
    Run("AFDate_KeystrokeEx", <<cFormat, date>>,
        AFDate_KeystrokeEx(Globals, cFormat, date))

Call_AFTime_KeystrokeEx ==
  \E cFormat \in {"HH:MM"}, date \in {"null", "date"} :
    Run("AFTime_KeystrokeEx", <<cFormat, date>>,
        AFTime_KeystrokeEx(Globals, cFormat, date))

Call_AFRange_Validate(flags, limits) ==
  \E bGreaterThan \in flags, bLessThan \in flags :
    \E nGreaterThan \in limits, nLessThan \in limits :
      Run("AFRange_Validate", <<bGreaterThan, nGreaterThan, bLessThan, nLessThan>>,
          AFRange_Validate(Globals, bGreaterThan, nGreaterThan, bLessThan, nLessThan))

Call_AFNumber_Format ==
  \E nDec \in 0..2, sepStyle \in {0, 2}, negStyle \in 0..3 :
    \E strCurrency \in {<<>>, <<"$">>}, bCurrencyPrepend \in BOOLEAN :
      Run("AFNumber_Format", <<nDec, sepStyle, negStyle, strCurrency, bCurrencyPrepend>>,
          AFNumber_Format(Globals, nDec, sepStyle, negStyle, strCurrency,
                          bCurrencyPrepend))

Call_AFSimple_Calculate(functions, lists) ==
  \E cFunction \in functions, cFields \in lists :
    Run("AFSimple_Calculate", <<cFunction, cFields>>,
        AFSimple_Calculate(Globals, fields, cFunction, cFields))

----------------------------------------------------------------------------
(* Custom masks: AFSpecial_KeystrokeEx on every mask and every text *)

SsnDigits == <<"1", "2", "3", "4", "5", "6", "7", "8", "9">>       \* "123456789"
SsnLetter == <<"1", "2", "a", "4", "5", "6", "7", "8", "9">>       \* "12a456789"

MaskTexts ==
  {Str(s) : s \in Strings(TextChars, MaxLen) \cup {SsnDigits, SsnLetter}}
  \cup {Num(12 * Million)}
Masks == Strings(MaskChars, MaxMaskLen) \cup {Ssn, <<"X", "O">>}
TextChanges == {<<>>, <<"1">>, <<"a">>}

InitMask == InitWith(Events(MaskTexts, TextChanges, BOOLEAN), {NoDocument})
NextMask == Call_AFSpecial_KeystrokeEx(Masks)
SpecMask == InitMask /\ [][NextMask]_vars

\* the text the operation validated: the merged value of the entry event
Typed == AFMergeChange(entry)

\* position by position: c fits the mask character m
Fits(m, c) ==
  CASE m = "9" -> c \in {"0", "1", "2", "3", "4", "5", "6", "7", "8", "9"}
    [] m = "A" -> IsLetter(c)
    [] m = "O" -> IsLetter(c) \/ c \in {"0", "1", "2", "3", "4", "5", "6", "7", "8", "9"}
    [] m = "X" -> TRUE
    [] OTHER -> m = c

\* text passes mask: no longer than the mask, as long as it at a commit, and
\* every character fits the mask character at its position
Passes(text, mask, commit) ==
  /\ Len(text) <= Len(mask)
  /\ commit => Len(text) = Len(mask)
  /\ \A i \in 1..Len(text) : Fits(mask[i], text[i])

\* mask with its wildcards replaced, in order, by the characters of text
RECURSIVE Completed(_, _)
Completed(mask, text) ==
  IF mask = <<>> THEN <<>>
  ELSE IF IsMaskClass(mask[1])
       THEN (IF text = <<>> THEN <<>> ELSE <<text[1]>>)
              \o Completed(Tail(mask), IF text = <<>> THEN text ELSE Tail(text))
       ELSE <<mask[1]>> \o Completed(Tail(mask), text)

\* a committing AFSpecial_KeystrokeEx, entered with rc = true, on a typed
\* text that supplies exactly the wildcard characters of the mask
C1_Case ==
  /\ pc = "done" /\ op.name = "AFSpecial_KeystrokeEx"
  /\ entry.willCommit /\ entry.rc /\ entry.value.k = "string" /\ Typed # <<>>
  /\ Passes(Typed, Simplify(op.args[1]), TRUE)

C3_Case ==
  /\ pc = "done" /\ op.name = "AFSpecial_KeystrokeEx"
  /\ entry.rc /\ Typed # <<>>

C3_Accepted == event.rc /\ alerts = <<>>
C3_Rejected == ~event.rc /\ Len(alerts) = 1
C3_Passes ==
  \/ Passes(Typed, Simplify(op.args[1]), entry.willCommit)
  \/ Passes(Typed, op.args[1], entry.willCommit)

\* C3 as stated: for every mask (read: every non-empty mask), the text
\* passes the simplified or the original mask and is accepted without an
\* alert, or passes neither and is rejected with exactly one alert.
C3_Original ==
  C3_Case /\ op.args[1] # <<>> => \/ C3_Passes /\ C3_Accepted
                                  \/ ~C3_Passes /\ C3_Rejected

\* C3, amended: that holds for every mask with at least one of 9, A, O, X;
\* a mask with none is not checked at all, every text is accepted.
C3_Amended ==
  C3_Case => IF Simplify(op.args[1]) # <<>>
             THEN \/ C3_Passes /\ C3_Accepted
                  \/ ~C3_Passes /\ C3_Rejected
             ELSE C3_Accepted

C3_Witness ==
  /\ C3_Case /\ op.args[1] = Ssn /\ entry.value = Str(SsnLetter) /\ entry.willCommit
  /\ ~event.rc /\ alerts = <<Message("IDS_INVALID_VALUE", Ssn, <<>>)>>

----------------------------------------------------------------------------
(* Mask presets: AFSpecial_Format and AFSpecial_Keystroke on every psf *)

Psfs ==
  {Num(i * Million) : i \in -1..5}
  \cup {Num(1500000), Str(<<"2">>), Str(<<"x">>), Undefined}
PresetTexts ==
  {Str(s) : s \in Strings(TextChars, MaxLen)} \cup {Num(0), Num(5 * Million)}

InitSpecial ==
  InitWith(Events(PresetTexts, {<<>>, <<"1">>}, BOOLEAN), {NoDocument})
NextSpecial == Call_AFSpecial_Format(Psfs) \/ Call_AFSpecial_Keystroke(Psfs)
SpecSpecial == InitSpecial /\ [][NextSpecial]_vars

\* a preset operation called with a psf that is none of 0, 1, 2, 3
C6_Case ==
  /\ pc = "done" /\ op.name \in {"AFSpecial_Format", "AFSpecial_Keystroke"}
  /\ \A i \in 0..3 : AFMakeNumber(op.args[1]) # Num(i * Million)

\* C6 as stated: for every event, the empty value included, both operations
\* raise an error, leave event.value and event.rc unchanged and raise no alert.
C6_Original ==
  C6_Case /\ entry.value.k = "string" =>
    thrown = "Error" /\ event = entry /\ alerts = <<>>

\* C6, amended: AFSpecial_Keystroke raises the error for every event;
\* AFSpecial_Format raises it for every event but one whose value is empty
\* (falsy), where it returns without an error.  Both leave event.value and
\* event.rc unchanged and raise no alert.
C6_Amended ==
  C6_Case =>
    /\ event = entry /\ alerts = <<>>
    /\ IF op.name = "AFSpecial_Format" /\ ~ToBoolean(entry.value)
       THEN thrown = "none" ELSE thrown = "Error"

C6_Witness ==
  /\ C6_Case /\ op.name = "AFSpecial_Format" /\ op.args[1] = Num(5 * Million)
  /\ entry.value = Str(<<>>) /\ thrown = "none" /\ event = entry

----------------------------------------------------------------------------
(* The phone preset: AFSpecial_Keystroke(2) on texts of up to eight characters *)

PhoneTexts == {Str(s) : s \in Strings(TextChars, MaxPhoneLen)}

InitPhone == InitWith(Events(PhoneTexts, {<<>>}, {TRUE}), {NoDocument})
NextPhone == Call_AFSpecial_Keystroke({Num(2 * Million)})
SpecPhone == InitPhone /\ [][NextPhone]_vars

Digits7 == <<"9", "9", "9", "9", "9", "9", "9">>
C7_Case == pc = "done" /\ op.name = "AFSpecial_Keystroke" /\ op.args[1] = Num(2 * Million)

\* none of the four silent probes accepts the text
C7_NoProbe ==
  /\ Typed # <<>>
  /\ ~Passes(Typed, Phone7, entry.willCommit)
  /\ ~Passes(Typed, Phone10, entry.willCommit)
  /\ ~Passes(Clean(Typed), Digits7, entry.willCommit)
  /\ ~Passes(Clean(Typed), TenDigits, entry.willCommit)

\* the mask the digit count of the text selects
C7_Selected ==
  IF Cardinality({i \in 1..Len(Typed) : IsDigit(Typed[i])}) > 7
  THEN Phone10 ELSE Phone7

\* C7: in AFSpecial_Keystroke(2), when no silent probe accepts the text the
\* definitive AFSpecial_KeystrokeEx pass is run, with "999-9999" for at most
\* seven digits and "(999) 999-9999" for more than seven, and the alert it
\* raises names that mask.
C7_PhoneMask ==
  C7_Case =>
    /\ C7_NoProbe => exMask # <<>>
    /\ exMask # <<>> =>
         /\ exMask = <<C7_Selected>>
         /\ alerts = <<Message("IDS_INVALID_VALUE", C7_Selected, <<>>)>>
         /\ ~event.rc

\* eight digits committed: the ten-digit mask is selected and named
C7_Witness ==
  /\ C7_Case /\ C7_NoProbe /\ entry.willCommit
  /\ Typed = <<"1", "1", "1", "1", "1", "1", "1", "1">>
  /\ exMask = <<Phone10>> /\ Len(alerts) = 1

\* seven digits and a letter: the seven-digit mask is selected and named
C7_Seven ==
  /\ C7_Case /\ C7_NoProbe
  /\ Typed = <<"1", "1", "1", "1", "1", "1", "1", "a">>
  /\ exMask = <<Phone7>> /\ Len(alerts) = 1

----------------------------------------------------------------------------
(* Every keystroke and validate operation on the same events *)

KeyChars == {"1", "a", "-", ","}
KeyTexts == {Str(s) : s \in Strings(KeyChars, MaxLen)} \cup {Num(12 * Million)}
KeyMasks == {<<>>, <<"9">>, <<"-">>, <<"9", "-", "9">>, <<"A", "9">>, <<"X", "O">>}

InitKeystroke ==
  InitWith(Events(KeyTexts, {<<>>, <<"1">>, <<"a">>}, BOOLEAN), {NoDocument})
NextKeystroke ==
  \/ Call_AFNumber_Keystroke
  \/ Call_AFPercent_Keystroke
  \/ Call_AFDate_KeystrokeEx
  \/ Call_AFTime_KeystrokeEx
  \/ Call_AFSpecial_KeystrokeEx(KeyMasks)
  \/ Call_AFSpecial_Keystroke(Psfs)
  \/ Call_AFRange_Validate({JSTrue, JSFalse}, {Num(Million)})
SpecKeystroke == InitKeystroke /\ [][NextKeystroke]_vars

NumberKeystrokes ==
  {"AFNumber_Keystroke", "AFPercent_Keystroke", "AFDate_KeystrokeEx",
   "AFTime_KeystrokeEx"}
MaskKeystrokes == {"AFSpecial_KeystrokeEx", "AFSpecial_Keystroke"}

\* a keystroke operation has run on an event that does not commit
C2_Case ==
  /\ pc = "done" /\ op.name \in NumberKeystrokes \cup MaskKeystrokes
  /\ ~entry.willCommit

\* C2 as stated: no keystroke operation raises an alert on an event that
\* does not commit, even when it ends with rc = false (read on the events
\* the host builds: a text, with rc = true).
C2_Original ==
  C2_Case /\ entry.rc /\ entry.value.k = "string" => alerts = <<>>

\* C2, amended: on an event that does not commit the number, percent, date
\* and time keystrokes raise no alert; the two mask keystrokes raise one
\* alert, naming the mask, exactly when they return with rc = false.
C2_Amended ==
  C2_Case =>
    IF op.name \in MaskKeystrokes /\ thrown = "none" /\ ~event.rc
    THEN /\ Len(alerts) = 1 /\ alerts[1].ids = "IDS_INVALID_VALUE"
         /\ alerts[1].text = exMask[Len(exMask)]
    ELSE alerts = <<>>

\* a keystroke blocked mid-typing without an alert
C2_Witness ==
  /\ C2_Case /\ op.name = "AFNumber_Keystroke"
  /\ entry.rc /\ ~event.rc /\ alerts = <<>>

\* a mask keystroke blocked mid-typing with an alert
C2_MaskAlert ==
  /\ C2_Case /\ op.name = "AFSpecial_KeystrokeEx" /\ entry.rc /\ ~event.rc
  /\ Len(alerts) = 1

\* C9: a keystroke or validate operation that rejects the input (rc = true
\* on entry, rc = false on return) leaves event.value as it was on entry.
C9_RejectKeepsValue ==
  /\ pc = "done"
  /\ op.name \in {"AFNumber_Keystroke", "AFPercent_Keystroke", "AFDate_KeystrokeEx",
                  "AFSpecial_KeystrokeEx", "AFSpecial_Keystroke", "AFRange_Validate"}
  /\ entry.rc /\ ~event.rc
  => event.value = entry.value

\* C9 holds of every operation but the two number keystrokes
C9_ButNumber ==
  /\ pc = "done"
  /\ op.name \in {"AFDate_KeystrokeEx", "AFTime_KeystrokeEx", "AFSpecial_KeystrokeEx",
                  "AFSpecial_Keystroke", "AFRange_Validate"}
  /\ entry.rc /\ ~event.rc
  => event.value = entry.value

----------------------------------------------------------------------------
(* AFRange_Validate on every value, flag and limit *)

RangeTexts ==
  {Str(s) : s \in Strings(NumberChars, MaxLen)}
  \cup {Str(<<"1", "5">>), Str(<<"2", "5">>)}
  \cup {Num(i * Million) : i \in {-1, 0, 5, 15, 25}}
Limits ==
  {Num(i * Million) : i \in {-1, 0, 10, 20}}
  \cup {Str(<<"1", "0">>), Str(<<"x">>), Undefined}

InitRange == InitWith(Events(RangeTexts, {<<>>}, BOOLEAN), {NoDocument})
NextRange == Call_AFRange_Validate({JSTrue, JSFalse}, Limits)
SpecRange == InitRange /\ [][NextRange]_vars

\* v is a number, or a string that spells one
IsNumeric(v) ==
  \/ v.k = "number"
  \/ v.k = "string" /\ Trim(v.s) # <<>> /\ ToNumber(v).k = "number"

\* AFRange_Validate(true, min, true, max) with numeric limits has run on a
\* numeric value
C4_Case ==
  /\ pc = "done" /\ op.name = "AFRange_Validate"
  /\ op.args[1] = JSTrue /\ op.args[3] = JSTrue
  /\ IsNumeric(op.args[2]) /\ IsNumeric(op.args[4])
  /\ IsNumeric(entry.value)

C4_Outside ==
  \/ ToNumber(entry.value).n < ToNumber(op.args[2]).n
  \/ ToNumber(entry.value).n > ToNumber(op.args[4]).n

\* C4: for every numeric value, 0 and the negative numbers included, a value
\* outside [min, max] raises exactly one alert and sets rc to false; a value
\* inside raises none and leaves rc untouched.
C4_RangeChecked ==
  C4_Case => IF C4_Outside THEN Len(alerts) = 1 /\ ~event.rc
             ELSE alerts = <<>> /\ event.rc = entry.rc

\* C4 holds of every numeric value but the number 0
C4_ButZero == C4_Case /\ entry.value # Num(0) => C4_RangeChecked

\* C10: with both flags false AFRange_Validate checks nothing: no alert, rc
\* and event.value unchanged, whatever the value and the limits.
C10_NoFlagsNoCheck ==
  /\ pc = "done" /\ op.name = "AFRange_Validate"
  /\ ~ToBoolean(op.args[1]) /\ ~ToBoolean(op.args[3])
  => alerts = <<>> /\ event = entry

----------------------------------------------------------------------------
(* AFNumber_Format on every value and style *)

Colors == {"black", "red", "blue"}
FormatEvents ==
  {[e EXCEPT !.target = Target(c)] :
     e \in Events(RangeTexts, {<<>>}, {TRUE}), c \in Colors}

InitFormat == InitWith(FormatEvents, {NoDocument})
NextFormat == Call_AFNumber_Format
SpecFormat == InitFormat /\ [][NextFormat]_vars

\* C8: when the value parses, negStyle 1 or 3 sets the text colour to red
\* exactly when the value is negative and to black otherwise (zero included),
\* negStyle 0 or 2 leaves it; when the value does not parse, event.value
\* becomes the empty string and the text colour is left.
C8_TextColor ==
  pc = "done" /\ op.name = "AFNumber_Format" =>
    LET number == AFMakeNumber(entry.value)
    IN IF number = Null
       THEN /\ event.value = Str(<<>>)
            /\ event.target.textColor = entry.target.textColor
       ELSE IF op.args[3] \in {1, 3}
            THEN event.target.textColor = (IF number.n < 0 THEN "red" ELSE "black")
            ELSE event.target.textColor = entry.target.textColor

\* C8 holds of every value but zero
C8_ButZero ==
  pc = "done" /\ AFMakeNumber(entry.value) # Num(0) => C8_TextColor

----------------------------------------------------------------------------
(* AFSimple_Calculate on every document of two fields *)

F1 == <<"f", "1">>
F2 == <<"f", "2">>
F3 == <<"f", "3">>
WidgetValues == {Num(3 * Million), Num(-2 * Million), Str(<<"x">>), Str(<<"1", ".", "5">>)}
Widgets == UNION {[1..n -> WidgetValues] : n \in 1..MaxWidgets}
Documents ==
  UNION {[names -> Widgets] : names \in SUBSET {F1, F2}}
FieldLists ==
  {Array(<<F1, F2>>), Array(<<F2>>), Array(<<F3, F1>>), Array(<<>>),
   Str(F1 \o <<",", " ">> \o F2)}
Functions == ActionKeys \cup InheritedKeys \cup {"XYZ"}

InitCalculate ==
  InitWith(Events({Str(<<>>), Str(<<"9">>)}, {<<>>}, {TRUE}), Documents)
NextCalculate == Call_AFSimple_Calculate(Functions, FieldLists)
SpecCalculate == InitCalculate /\ [][NextCalculate]_vars


\* the numbers the claim collects: every widget value of every named field
\* that exists, 0 for a value that does not parse
RECURSIVE C5_Numbers(_)
C5_Numbers(names) ==
  IF names = <<>> THEN <<>>
  ELSE (IF names[1] \in DOMAIN fields
        THEN [i \in 1..Len(fields[names[1]]) |->
                LET v == fields[names[1]][i]
                IN IF AFMakeNumber(v) = Null THEN Rat(0, 1) ELSE RatOf(AFMakeNumber(v))]
        ELSE <<>>)
       \o C5_Numbers(Tail(names))

RECURSIVE C5_Sum(_)
C5_Sum(xs) == IF xs = <<>> THEN Rat(0, 1) ELSE RatAdd(xs[1], C5_Sum(Tail(xs)))
RECURSIVE C5_Product(_)
C5_Product(xs) == IF xs = <<>> THEN Rat(1, 1) ELSE RatMul(xs[1], C5_Product(Tail(xs)))

\* the operator applied to xs, to six decimals
C5_Expected(cFunction, xs) ==
  CASE xs = <<>> -> Num(0)
    [] cFunction = "SUM" -> Round6(C5_Sum(xs))
    [] cFunction = "AVG" -> Round6(RatMul(C5_Sum(xs), Rat(1, Len(xs))))
    [] cFunction = "PRD" -> Round6(C5_Product(xs))
    [] cFunction = "MIN" ->
         Round6(xs[CHOOSE i \in 1..Len(xs) : \A j \in 1..Len(xs) : ~RatLess(xs[j], xs[i])])
    [] OTHER ->
         Round6(xs[CHOOSE i \in 1..Len(xs) : \A j \in 1..Len(xs) : ~RatLess(xs[i], xs[j])])

C5_Case == pc = "done" /\ op.name = "AFSimple_Calculate"

\* C5: for AVG, SUM, PRD, MIN and MAX event.value becomes the operator
\* applied to the values collected (0 for an unparsable one, 0 when there is
\* none); any other operator throws a TypeError before event.value is
\* written or a field is looked up.
C5_Calculate ==
  C5_Case =>
    IF op.args[1] \in {"AVG", "SUM", "PRD", "MIN", "MAX"}
    THEN /\ thrown = "none"
         /\ event.value = C5_Expected(op.args[1], C5_Numbers(AFMakeArrayFromList(op.args[2])))
    ELSE thrown = "TypeError" /\ event = entry /\ lookups = <<>>

\* C5 holds of every operator name that Object.prototype does not define
C5_ButInherited == C5_Case /\ op.args[1] \notin InheritedKeys => C5_Calculate

\* SUM over a field of 3 and a field of "x" gives 3
C5_SumExample ==
  /\ C5_Case /\ op.args[1] = "SUM" /\ op.args[2] = Array(<<F1, F2>>)
  /\ fields = [name \in {F1, F2} |->
                 IF name = F1 THEN <<Num(3 * Million)>> ELSE <<Str(<<"x">>)>>]
  /\ event.value = Num(3 * Million)

=============================================================================
